---- MODULE Spec2Model ----
(***************************************************************************)
(* Model of the two scripts of the repository:                             *)
(*   azure_openai_chat.py  run_chat_session and the functions it calls     *)
(*   azure_openai_test.py  test_azure_openai_connection                    *)
(* Python str values are tuples of one-character strings, so that lower(), *)
(* split(), replace() and int() are computed and not assumed.              *)
(* The remote service, the terminal and the process environment are the    *)
(* nondeterministic inputs: what the listing returns, whether a call       *)
(* raises, which line is typed, when Ctrl-C arrives.                       *)
(***************************************************************************)
EXTENDS Integers, Sequences, FiniteSets, TLC

\* ---------------------------------------------------------------- bounds

\* number of prompts answered (a line typed or an error at the prompt)
MaxTurns == 3

\* ------------------------------------------------------- Python str model

Upper == <<"A","B","C","D","E","F","G","H","I","J","K","L","M",
           "N","O","P","Q","R","S","T","U","V","W","X","Y","Z">>
Lower == <<"a","b","c","d","e","f","g","h","i","j","k","l","m",
           "n","o","p","q","r","s","t","u","v","w","x","y","z">>
Digits == <<"0","1","2","3","4","5","6","7","8","9">>
Whitespace == {" ", "\t", "\n"}

\* Python None, as a value no str equals (no str has a 4-character element)
None == <<"None">>

LowerChar(c) ==
    IF \E i \in 1..Len(Upper) : Upper[i] = c
    THEN Lower[CHOOSE i \in 1..Len(Upper) : Upper[i] = c]
    ELSE c

\* str.lower()
StrLower(s) == [i \in 1..Len(s) |-> LowerChar(s[i])]

\* str.split()[0]: the first maximal run of non-whitespace characters
FirstWord(s) ==
    LET starts == {i \in 1..Len(s) : s[i] \notin Whitespace}
        b == CHOOSE i \in starts : \A j \in starts : i <= j
        stops == {i \in b..Len(s) : s[i] \in Whitespace}
        e == IF stops = {} THEN Len(s)
             ELSE (CHOOSE i \in stops : \A j \in stops : i <= j) - 1
    IN SubSeq(s, b, e)

\* str.replace(c, "")
RECURSIVE StrRemove(_, _)
StrRemove(s, c) ==
    IF s = <<>> THEN <<>>
    ELSE IF Head(s) = c THEN StrRemove(Tail(s), c)
    ELSE <<Head(s)>> \o StrRemove(Tail(s), c)

DigitValue(c) == (CHOOSE i \in 1..Len(Digits) : Digits[i] = c) - 1

\* int(s) for a non-empty string of decimal digits
RECURSIVE StrToInt(_)
StrToInt(s) ==
    IF Len(s) = 1 THEN DigitValue(s[1])
    ELSE 10 * StrToInt(SubSeq(s, 1, Len(s) - 1)) + DigitValue(s[Len(s)])

\* int(model_info["max_output_tokens"].split()[0].replace(",", ""))
ParseMaxTokens(s) == StrToInt(StrRemove(FirstWord(s), ","))

\* --------------------------------------------------------- model registry

MODEL_DOCUMENTATION ==
    [n \in {"gpt-4.1", "gpt-4.1-nano", "o4-mini"} |->
        IF n = "gpt-4.1"
        THEN [official_name |-> "gpt-4o",
              api_version |-> "2024-05-01-preview",
              max_output_tokens |-> <<"8",",","1","9","2"," ","t","o","k","e","n","s">>,
              token_param_name |-> "max_completion_tokens"]
        ELSE [official_name |-> "gpt-4o-mini",
              api_version |-> "2024-12-01-preview",
              max_output_tokens |-> <<"1","6",",","3","8","4"," ","t","o","k","e","n","s">>,
              token_param_name |-> "max_completion_tokens"]]

\* `model_name not in MODEL_DOCUMENTATION`, negated
KnownModel(name) == name \in DOMAIN MODEL_DOCUMENTATION

\* ------------------------------------------------------------ environment

\* os.getenv of a variable that is not set
Unset == "<unset>"
EnvValues == {Unset, "", "https://example.openai.azure.com/"}
KeyValues == {Unset, "", "secret"}

\* os.getenv(name, default)
Getenv(v, default) == IF v = Unset THEN default ELSE v

\* Python truthiness of an Optional[str]
Truthy(v) == v # Unset /\ v # ""

\* --model arguments tried: registered names and names the registry lacks
ModelArgs == {"gpt-4.1", "o4-mini", "gpt-35-turbo", "gpt-4o"}

\* what the remote listing may hold
Deployments == { {}, {"gpt-4.1", "gpt-4o"}, {"gpt-4.1-nano", "o4-mini"} }

\* lines typed at the prompt
ExitLines == { <<"e","x","i","t">>, <<"E","X","I","T">>, <<"Q","u","i","t">>,
               <<"q">>, <<"Q">> }
ChatLines == { <<"h","e","l","l","o">>, <<"q"," ">> }
UserLines == ExitLines \cup ChatLines

\* response.choices[0].message.content: a str, or None
Replies == { <<"h","i"," ","t","h","e","r","e">>, None }

\* ------------------------------------------------------------------ state

VARIABLES
    script,         \* which script runs: "chat" (run_chat_session) or "test"
    env_endpoint,   \* the AZURE_OPENAI_ENDPOINT variable of the process environment
    env_api_key,    \* the AZURE_OPENAI_API_KEY variable of the process environment
    model_name,     \* argument of run_chat_session
    deployed,       \* identifiers the remote model listing returns
    pc,             \* position of the process
    model_info,     \* <<>> before line 152, <<entry>> after
    client,         \* <<>> before the client is constructed, <<handle>> after
    messages,       \* the transcript (line 164)
    found_models,   \* test script, line 45
    turns,          \* prompts answered so far
    nListings,      \* client.models.list() calls made
    nCompletions,   \* client.chat.completions.create() calls made
    sent,           \* <<>> or <<the keyword arguments of the last create() call>>
    pre,            \* the transcript when the current turn's prompt was shown
    line,           \* the line typed in the current turn
    reply,          \* the content the last successful create() call returned
    outcome,        \* what happened so far in the current turn
    lastExc,        \* the last exception raised inside the session loop
    cause,          \* why the process ended
    exitStatus,     \* -1 while running, then the exit status of the process
    startupLog      \* the start-up steps of run_chat_session passed, in order

envVars == <<script, env_endpoint, env_api_key, model_name, deployed>>
vars == <<script, env_endpoint, env_api_key, model_name, deployed, pc, model_info,
          client, messages, found_models, turns, nListings, nCompletions, sent,
          pre, line, reply, outcome, lastExc, cause, exitStatus, startupLog>>

StartupPcs == {"lookup", "factory", "verify"}
TryPcs == {"awaiting", "sending", "inflight", "rendering"}
LoopPcs == TryPcs \cup {"handling"}
TestPcs == {"t_config", "t_listing", "t_completion"}
FinalPcs == {"exited", "terminated"}

Init ==
    /\ script \in {"chat", "test"}
    /\ env_endpoint \in EnvValues
    /\ env_api_key \in KeyValues
    /\ model_name \in (IF script = "chat" THEN ModelArgs ELSE {""})
    /\ deployed \in Deployments
    /\ pc = IF script = "chat" THEN "lookup" ELSE "t_config"
    /\ model_info = <<>>
    /\ client = <<>>
    /\ messages = <<>>
    /\ found_models = {}
    /\ turns = 0
    /\ nListings = 0
    /\ nCompletions = 0
    /\ sent = <<>>
    /\ pre = <<>>
    /\ line = <<>>
    /\ reply = <<>>
    /\ outcome = "none"
    /\ lastExc = "none"
    /\ cause = "none"
    /\ exitStatus = -1
    /\ startupLog = <<>>

\* sys.exit(status) / an uncaught exception: the process ends
Exit(status, why) ==
    /\ pc' = "terminated"
    /\ exitStatus' = status
    /\ cause' = why

\* --------------------------------------------- run_chat_session: start-up

\* Lookup with the client constructed before the registry is consulted
LookupAfterClient ==
    /\ pc = "lookup"
    /\ startupLog' = Append(startupLog, "lookup")
    /\ client' = <<[azure_endpoint |-> env_endpoint,
                    api_key |-> env_api_key,
                    api_version |-> "2024-05-01-preview"]>>
    /\ IF ~KnownModel(model_name)
       THEN /\ Exit(1, "not_in_registry")
            /\ UNCHANGED model_info
       ELSE /\ model_info' = <<MODEL_DOCUMENTATION[model_name]>>
            /\ pc' = "factory"
            /\ UNCHANGED <<cause, exitStatus>>
    /\ UNCHANGED <<envVars, messages, found_models, turns, nListings,
                   nCompletions, sent, pre, line, reply, outcome, lastExc>>

\* lines 147-153
Lookup ==
    /\ pc = "lookup"
    /\ startupLog' = Append(startupLog, "lookup")
    /\ IF ~KnownModel(model_name)
       THEN /\ Exit(1, "not_in_registry")
            /\ UNCHANGED model_info
       ELSE /\ model_info' = <<MODEL_DOCUMENTATION[model_name]>>
            /\ pc' = "factory"
            /\ UNCHANGED <<cause, exitStatus>>
    /\ UNCHANGED <<envVars, client, messages, found_models, turns, nListings,
                   nCompletions, sent, pre, line, reply, outcome, lastExc>>

\* CredentialsMissing testing the key alone
CredentialsMissingKeyOnly(endpoint, api_key) == ~Truthy(api_key)

\* `not AZURE_OPENAI_ENDPOINT or not AZURE_OPENAI_API_KEY`
CredentialsMissing(endpoint, api_key) == ~Truthy(endpoint) \/ ~Truthy(api_key)

\* create_azure_openai_client(api_version), called at line 155
CreateClient ==
    /\ pc = "factory"
    /\ startupLog' = Append(startupLog, "client")
    /\ IF CredentialsMissing(env_endpoint, env_api_key)
       THEN /\ Exit(1, "configuration")
            /\ UNCHANGED client
       ELSE /\ client' = <<[azure_endpoint |-> env_endpoint,
                            api_key |-> env_api_key,
                            api_version |-> model_info[1].api_version]>>
            /\ pc' = "verify"
            /\ UNCHANGED <<cause, exitStatus>>
    /\ UNCHANGED <<envVars, model_info, messages, found_models, turns, nListings,
                   nCompletions, sent, pre, line, reply, outcome, lastExc>>

\* ModelListed with the membership test dropped
ModelListedAlways(name, available_models) == TRUE

\* `model_name not in available_models`, negated
ModelListed(name, available_models) == name \in available_models

SystemMessage == [role |-> "system",
                  content |-> <<"Y","o","u"," ","a","r","e"," ","a"," ",
                                "h","e","l","p","f","u","l"," ","A","I"," ",
                                "a","s","s","i","s","t","a","n","t",".">>]

\* verify_model_availability(client, model_name), lines 157-164: the listing
\* call raises, or returns the deployed identifiers
Verify ==
    /\ pc = "verify"
    /\ client # <<>>
    /\ nListings' = nListings + 1
    /\ startupLog' = Append(startupLog, "verify")
    /\ \E raises \in BOOLEAN :
         IF raises
         THEN /\ Exit(1, "connectivity")
              /\ UNCHANGED messages
         ELSE IF ~ModelListed(model_name, deployed)
         THEN /\ Exit(1, "not_deployed")
              /\ UNCHANGED messages
         ELSE /\ messages' = <<SystemMessage>>
              /\ pc' = "awaiting"
              /\ UNCHANGED <<cause, exitStatus>>
    /\ UNCHANGED <<envVars, model_info, client, found_models, turns,
                   nCompletions, sent, pre, line, reply, outcome, lastExc>>

\* ------------------------------------------ run_chat_session: session loop

ExitCommands == { <<"e","x","i","t">>, <<"q","u","i","t">>, <<"q">> }

\* IsExitCommand without the lower()
IsExitCommandCaseSensitive(user_input) == user_input \in ExitCommands

\* `user_input.lower() in ["exit", "quit", "q"]`, line 168
IsExitCommand(user_input) == StrLower(user_input) \in ExitCommands

\* ExceptClause with one clause catching everything (`except BaseException`)
ExceptClauseCatchAll(exc) == "Exception"

\* which except clause of lines 198-203 catches an exception raised in the
\* try body: KeyboardInterrupt is no subclass of Exception
ExceptClause(exc) ==
    IF exc = "KeyboardInterrupt" THEN "KeyboardInterrupt" ELSE "Exception"

\* an exception raised inside the try body, lines 166-196: the
\* KeyboardInterrupt clause prints and breaks, the Exception clause prints
\* the error and goes on to line 203
Raise(exc) ==
    /\ lastExc' = exc
    /\ IF ExceptClause(exc) = "KeyboardInterrupt"
       THEN /\ pc' = "exited"
            /\ cause' = "interrupt"
            /\ exitStatus' = 0
       ELSE /\ pc' = "handling"
            /\ UNCHANGED <<cause, exitStatus>>

\* lines 167-172: a line is read at the prompt
ReadInput ==
    /\ pc = "awaiting"
    /\ turns < MaxTurns
    /\ \E user_input \in UserLines :
         /\ line' = user_input
         /\ IF IsExitCommand(user_input)
            THEN /\ pc' = "exited"
                 /\ cause' = "exit_command"
                 /\ exitStatus' = 0
                 /\ outcome' = "exit_command"
                 /\ UNCHANGED messages
            ELSE /\ messages' = Append(messages, [role |-> "user", content |-> user_input])
                 /\ pc' = "sending"
                 /\ outcome' = "pending"
                 /\ UNCHANGED <<cause, exitStatus>>
    /\ turns' = turns + 1
    /\ pre' = messages
    /\ UNCHANGED <<envVars, model_info, client, found_models, nListings,
                   nCompletions, sent, reply, lastExc, startupLog>>

\* line 167: Prompt.ask raises (EOFError when standard input is at its end)
ReadInputError ==
    /\ pc = "awaiting"
    /\ turns < MaxTurns
    /\ turns' = turns + 1
    /\ pre' = messages
    /\ line' = <<>>
    /\ outcome' = "input_error"
    /\ Raise("EOFError")
    /\ UNCHANGED <<envVars, model_info, client, messages, found_models, nListings,
                   nCompletions, sent, reply, startupLog>>

\* BuildChatParams with the field name written out instead of looked up
BuildChatParamsHardCoded(name, msgs, info) ==
    ("max_tokens" :> ParseMaxTokens(info.max_output_tokens))
        @@ ("messages" :> msgs) @@ ("model" :> name)

\* lines 179-186: the keyword arguments of the request; in a dict display a
\* later key replaces an equal earlier one
BuildChatParams(name, msgs, info) ==
    (info.token_param_name :> ParseMaxTokens(info.max_output_tokens))
        @@ ("messages" :> msgs) @@ ("model" :> name)

\* lines 174-188: the request is built and handed to the client
Send ==
    /\ pc = "sending"
    /\ sent' = <<BuildChatParams(model_name, messages, model_info[1])>>
    /\ nCompletions' = nCompletions + 1
    /\ pc' = "inflight"
    /\ UNCHANGED <<envVars, model_info, client, messages, found_models, turns,
                   nListings, pre, line, reply, outcome, lastExc, cause,
                   exitStatus, startupLog>>

\* lines 188-194: create() returns; the reply content is appended
ReplyOk ==
    /\ pc = "inflight"
    /\ \E content \in Replies :
         /\ reply' = content
         /\ messages' = Append(messages, [role |-> "assistant", content |-> content])
    /\ outcome' = "create_ok"
    /\ pc' = "rendering"
    /\ UNCHANGED <<envVars, model_info, client, found_models, turns, nListings,
                   nCompletions, sent, pre, line, lastExc, cause, exitStatus,
                   startupLog>>

\* line 188: create() raises
RequestFails ==
    /\ pc = "inflight"
    /\ outcome' = "request_failed"
    /\ Raise("APIError")
    /\ UNCHANGED <<envVars, model_info, client, messages, found_models, turns,
                   nListings, nCompletions, sent, pre, line, reply, startupLog>>

\* lines 195-196: the reply is printed; Markdown(None) raises TypeError
RenderOk ==
    /\ pc = "rendering"
    /\ reply # None
    /\ pc' = "awaiting"
    /\ UNCHANGED <<envVars, model_info, client, messages, found_models, turns,
                   nListings, nCompletions, sent, pre, line, reply, outcome,
                   lastExc, cause, exitStatus, startupLog>>

\* lines 195-196: printing the reply raises (TypeError for a None content,
\* an encoding or I/O error of the terminal for a str)
RenderFails ==
    /\ pc = "rendering"
    /\ Raise(IF reply = None THEN "TypeError" ELSE "OSError")
    /\ UNCHANGED <<envVars, model_info, client, messages, found_models, turns,
                   nListings, nCompletions, sent, pre, line, reply, outcome,
                   startupLog>>

\* Pop that removes nothing (the handler without its rollback)
PopNothing(msgs) == msgs

\* list.pop() of a non-empty list, line 203
Pop(msgs) == SubSeq(msgs, 1, Len(msgs) - 1)

\* line 203: messages.pop(); on an empty list it raises IndexError, which
\* nothing catches. The print of line 202 is taken to succeed.
Rollback ==
    /\ pc = "handling"
    /\ IF messages = <<>>
       THEN /\ Exit(1, "IndexError")
            /\ UNCHANGED messages
       ELSE /\ messages' = Pop(messages)
            /\ pc' = "awaiting"
            /\ UNCHANGED <<cause, exitStatus>>
    /\ UNCHANGED <<envVars, model_info, client, found_models, turns, nListings,
                   nCompletions, sent, pre, line, reply, outcome, lastExc,
                   startupLog>>

\* Ctrl-C while the try body runs, lines 166-196
Interrupt ==
    /\ pc \in TryPcs
    /\ Raise("KeyboardInterrupt")
    /\ UNCHANGED <<envVars, model_info, client, messages, found_models, turns,
                   nListings, nCompletions, sent, pre, line, reply, outcome,
                   startupLog>>

\* Ctrl-C outside the try body (start-up, the except clause of lines
\* 201-203, the test script): nothing catches it
InterruptUncaught ==
    /\ pc \in StartupPcs \cup {"handling"} \cup TestPcs
    /\ lastExc' = "KeyboardInterrupt"
    /\ Exit(130, "interrupt")
    /\ UNCHANGED <<envVars, model_info, client, messages, found_models, turns,
                   nListings, nCompletions, sent, pre, line, reply, outcome,
                   startupLog>>

\* ------------------------------------- test_azure_openai_connection (test)

DefaultEndpoint == "https://temporarytesting.openai.azure.com/"
expected_models == <<"gpt-4.1", "gpt-4.1-nano", "o4-mini">>

\* `not api_key`, line 23
TestKeyMissing(endpoint, api_key) == ~Truthy(api_key)

\* lines 20-32
TestConfig ==
    /\ pc = "t_config"
    /\ LET endpoint == Getenv(env_endpoint, DefaultEndpoint)
           api_key == Getenv(env_api_key, Unset)
       IN IF TestKeyMissing(endpoint, api_key)
          THEN /\ Exit(1, "configuration")
               /\ UNCHANGED client
          ELSE /\ client' = <<[azure_endpoint |-> endpoint,
                               api_key |-> api_key,
                               api_version |-> "2023-12-01-preview"]>>
               /\ pc' = "t_listing"
               /\ UNCHANGED <<cause, exitStatus>>
    /\ UNCHANGED <<envVars, model_info, messages, found_models, turns, nListings,
                   nCompletions, sent, pre, line, reply, outcome, lastExc,
                   startupLog>>

\* lines 38-60: the listing call is made with whatever endpoint the client
\* holds; whether it raises is the remote side's choice
TestList ==
    /\ pc = "t_listing"
    /\ nListings' = nListings + 1
    /\ \E raises \in BOOLEAN :
         IF raises
         THEN /\ Exit(1, "connectivity")
              /\ UNCHANGED found_models
         ELSE /\ found_models' = deployed
              /\ pc' = "t_completion"
              /\ UNCHANGED <<cause, exitStatus>>
    /\ UNCHANGED <<envVars, model_info, client, messages, turns, nCompletions,
                   sent, pre, line, reply, outcome, lastExc, startupLog>>

\* next((m for m in expected_models if m in found_models), None), line 65
FirstFound(found) ==
    LET hits == {i \in 1..Len(expected_models) : expected_models[i] \in found}
    IN IF hits = {} THEN None
       ELSE <<expected_models[CHOOSE i \in hits : \A j \in hits : i <= j]>>

\* lines 73-76, the two contents shortened
TestMessages ==
    << [role |-> "system", content |-> <<"t","e","s","t">>],
       [role |-> "user", content |-> <<"H","e","l","l","o">>] >>

\* lines 63-88: the completion test; its failure is printed and the script
\* still ends normally
TestCompletion ==
    /\ pc = "t_completion"
    /\ LET test_model == FirstFound(found_models)
       IN IF test_model = None
          THEN UNCHANGED <<sent, nCompletions>>
          ELSE /\ sent' = <<("max_tokens" :> 100) @@ ("messages" :> TestMessages)
                               @@ ("model" :> test_model[1])>>
               /\ nCompletions' = nCompletions + 1
    /\ pc' = "exited"
    /\ exitStatus' = 0
    /\ cause' = "done"
    /\ UNCHANGED <<envVars, model_info, client, messages, found_models, turns,
                   nListings, pre, line, reply, outcome, lastExc, startupLog>>

\* ---------------------------------------------------------- specification

Next ==
    \/ Lookup
    \/ CreateClient
    \/ Verify
    \/ ReadInput
    \/ ReadInputError
    \/ Send
    \/ ReplyOk
    \/ RequestFails
    \/ RenderOk
    \/ RenderFails
    \/ Rollback
    \/ Interrupt
    \/ InterruptUncaught
    \/ TestConfig
    \/ TestList
    \/ TestCompletion

Spec == Init /\ [][Next]_vars

TypeOK ==
    /\ pc \in StartupPcs \cup LoopPcs \cup TestPcs \cup FinalPcs
    /\ turns \in 0..MaxTurns
    /\ Len(sent) <= 1
    /\ Len(model_info) <= 1
    /\ (pc \in FinalPcs) = (exitStatus # -1)

\* ------------------------------------------------------------ properties

UserMessage(text) == [role |-> "user", content |-> text]
AssistantMessage(text) == [role |-> "assistant", content |-> text]

\* C1: when a completion request fails (create() raises) and the loop is back
\* at the prompt, the transcript is what it was when the failed turn began:
\* the user message of that turn, and nothing else, has been removed.
C1_RollbackAfterRequestError ==
    (pc = "awaiting" /\ outcome = "request_failed") =>
        /\ Len(messages) = Len(pre)
        /\ messages = pre

C1_Witness ==
    /\ pc = "awaiting"
    /\ outcome = "request_failed"
    /\ line = <<"h","e","l","l","o">>
    /\ Len(messages) = 3

\* C2: once the session loop has started, the process ends only through an
\* exit command or an external interrupt; no error raised inside a turn ends
\* the loop or the process.
C2_LoopEndsOnlyByExitOrInterrupt ==
    (script = "chat" /\ turns > 0 /\ pc \in FinalPcs) =>
        cause \in {"exit_command", "interrupt"}

\* C3: every completion request the session loop sends carries the session's
\* model identifier, the full transcript ending with the user message just
\* appended, and exactly one output-limiting field, named by token_param_name
\* of the registry entry of the model and valued by its max_output_tokens; the
\* entry held by the session is the registry's entry throughout the loop.
C3_RequestShape ==
    /\ (script = "chat" /\ pc \in LoopPcs) =>
            model_info = <<MODEL_DOCUMENTATION[model_name]>>
    /\ (script = "chat" /\ pc = "inflight") =>
          LET req == sent[1]
              entry == MODEL_DOCUMENTATION[model_name]
          IN /\ req["model"] = model_name
             /\ req["messages"] = messages
             /\ messages = Append(pre, UserMessage(line))
             /\ DOMAIN req \ {"model", "messages"} = {entry.token_param_name}
             /\ req[entry.token_param_name] = ParseMaxTokens(entry.max_output_tokens)
             /\ (model_name = "gpt-4.1" => req["max_completion_tokens"] = 8192)
             /\ (model_name = "o4-mini" => req["max_completion_tokens"] = 16384)

C3_Witness ==
    /\ script = "chat"
    /\ pc = "inflight"
    /\ model_name = "o4-mini"
    /\ nCompletions = 2
    /\ Len(messages) = 4

\* C4: the session loop is entered (a line is read or a completion request is
\* sent) only after the registry lookup, the client creation and the
\* availability check, passed in that order, with the identifier both in the
\* registry and in the remote listing; if it is missing from either, or the
\* listing call fails, the process ends with an error status, no line read and
\* no completion request sent.
C4_StartupBeforeLoop ==
    /\ (script = "chat" /\ (pc \in LoopPcs \/ turns > 0 \/ nCompletions > 0)) =>
          /\ startupLog = <<"lookup", "client", "verify">>
          /\ model_name \in DOMAIN MODEL_DOCUMENTATION
          /\ model_name \in deployed
          /\ client # <<>>
          /\ nListings = 1
    /\ (script = "chat" /\ (\/ model_name \notin DOMAIN MODEL_DOCUMENTATION
                            \/ model_name \notin deployed
                            \/ cause = "connectivity")) =>
          /\ pc \notin LoopPcs
          /\ turns = 0
          /\ nCompletions = 0
          /\ pc \in FinalPcs => (pc = "terminated" /\ exitStatus \in {1, 130})

C4_Witness ==
    /\ script = "chat"
    /\ pc = "inflight"
    /\ turns = 1
    /\ startupLog = <<"lookup", "client", "verify">>

\* C5: for an identifier absent from the registry, run_chat_session reports
\* not-found and exits with no client created, no listing requested and no
\* completion request sent, whatever the credentials and the remote listing.
C5_UnknownModelNoNetwork ==
    (script = "chat" /\ model_name \notin DOMAIN MODEL_DOCUMENTATION) =>
        /\ client = <<>>
        /\ nListings = 0
        /\ nCompletions = 0
        /\ turns = 0
        /\ pc \in {"lookup", "terminated"}
        /\ pc = "terminated" =>
              \/ cause = "not_in_registry" /\ exitStatus = 1
              \/ cause = "interrupt"

C5_Witness ==
    /\ script = "chat"
    /\ model_name = "gpt-4o"
    /\ model_name \in deployed
    /\ Truthy(env_endpoint)
    /\ Truthy(env_api_key)
    /\ cause = "not_in_registry"

CredentialErrors == {"configuration", "not_in_registry", "interrupt"}

\* C6, as claimed: in every script, if the endpoint or the API key is unset or
\* empty, the process reports an error and exits before any network activity:
\* no model-listing call and no completion call is made. (Read generously: the
\* not-found report for an unregistered identifier counts as the error.)
C6_Original_NoNetworkWithoutCredentials ==
    (~Truthy(env_endpoint) \/ ~Truthy(env_api_key)) =>
        /\ nListings = 0
        /\ nCompletions = 0
        /\ pc \in FinalPcs => (exitStatus # 0 /\ cause \in CredentialErrors)

\* C6, amended: in run_chat_session an unset or empty endpoint or API key, and
\* in the test script an unset or empty API key, ends the process with an
\* error status before any client is created or network call made (the
\* configuration error, unless the identifier is not registered or Ctrl-C came
\* first); the test script replaces an unset endpoint by its built-in default
\* and goes on.
C6_CredentialsGate ==
    /\ (\/ script = "chat" /\ (~Truthy(env_endpoint) \/ ~Truthy(env_api_key))
        \/ script = "test" /\ ~Truthy(env_api_key)) =>
          /\ client = <<>>
          /\ nListings = 0
          /\ nCompletions = 0
          /\ turns = 0
          /\ pc \in FinalPcs => (exitStatus # 0 /\ cause \in CredentialErrors)
          /\ (pc \in FinalPcs /\ cause # "interrupt"
                /\ (script = "chat" => model_name \in DOMAIN MODEL_DOCUMENTATION))
               => (cause = "configuration" /\ exitStatus = 1)
    /\ (script = "test" /\ client # <<>>) =>
          /\ Truthy(env_api_key)
          /\ client[1].azure_endpoint =
                (IF env_endpoint = Unset THEN DefaultEndpoint ELSE env_endpoint)

C6_Witness ==
    /\ script = "chat"
    /\ ~Truthy(env_endpoint)
    /\ Truthy(env_api_key)
    /\ model_name \in deployed
    /\ cause = "configuration"

\* C7: a line equal to "exit", "quit" or "q" ignoring letter case, typed at any
\* prompt of the session, ends the loop with no message appended or removed
\* and no network call made.
C7_ExitCommand ==
    [][ (pc = "awaiting" /\ turns' = turns + 1 /\ line' \in ExitLines) =>
            /\ pc' = "exited"
            /\ cause' = "exit_command"
            /\ messages' = messages
            /\ nCompletions' = nCompletions
            /\ nListings' = nListings
            /\ sent' = sent ]_vars

C7_Witness ==
    /\ pc = "exited"
    /\ cause = "exit_command"
    /\ line = <<"Q","u","i","t">>
    /\ lastExc = "APIError"
    /\ Len(messages) = 3

\* C8: after a turn whose completion call succeeded, when the loop is back at
\* the prompt the transcript is the transcript before the turn followed by the
\* user message and then the assistant message with the returned content.
C8_SuccessfulTurnAppendsPair ==
    (pc = "awaiting" /\ outcome = "create_ok") =>
        messages = pre \o <<UserMessage(line), AssistantMessage(reply)>>

\* C9: an external interrupt arriving anywhere in the session loop ends the
\* loop at once and bypasses rollback: the transcript stays as it was, no
\* further network call is made, and from the try body (prompt, request in
\* flight, rendering) the loop is left by break.
C9_InterruptBypassesRollback ==
    [][ /\ (pc \in LoopPcs /\ lastExc # "KeyboardInterrupt"
               /\ lastExc' = "KeyboardInterrupt") =>
              /\ pc' \in FinalPcs
              /\ pc \in TryPcs => (pc' = "exited" /\ exitStatus' = 0)
              /\ messages' = messages
              /\ nCompletions' = nCompletions
              /\ nListings' = nListings
        /\ pc \in FinalPcs =>
              (messages' = messages /\ nCompletions' = nCompletions) ]_vars

C9_Witness ==
    /\ pc = "exited"
    /\ cause = "interrupt"
    /\ nCompletions = 2
    /\ Len(messages) = 4

RECURSIVE PairsFrom(_, _)
PairsFrom(msgs, i) ==
    \/ i > Len(msgs)
    \/ /\ i + 1 <= Len(msgs)
       /\ msgs[i].role = "user"
       /\ msgs[i + 1].role = "assistant"
       /\ PairsFrom(msgs, i + 2)

\* C10: every time the loop awaits input the transcript is the system message
\* followed by zero or more complete (user, assistant) pairs.
C10_TranscriptShape ==
    pc = "awaiting" =>
        /\ Len(messages) >= 1
        /\ messages[1] = SystemMessage
        /\ PairsFrom(messages, 2)

====
